---- MODULE Spec2Model ----
(***************************************************************************)
(* Model of the code-review script of Code_Review_and_Debugging.ipynb:     *)
(* analyze_python_script parses a script with ast.parse, walks the tree    *)
(* with ast.walk and reports "nested" for-loops and unused imports; the    *)
(* module-level caller prints a summary of the returned list.              *)
(*                                                                         *)
(* A syntax tree is a record [n, parent, node]: the nodes are 1..n, named  *)
(* in source order (depth-first pre-order), node 0 is the ast.Module root, *)
(* parent[i] is the node that lists i among its child nodes, and node[i]   *)
(* holds the fields of i the script reads.  Every modelled node sits on a  *)
(* line of its own, so the lineno of node i is i.                          *)
(***************************************************************************)
EXTENDS Integers, Sequences, FiniteSets, TLC

VARIABLES text, hashseed, pc, issues, out, prev

vars == <<text, hashseed, pc, issues, out, prev>>

----------------------------------------------------------------------------
(* Bounds *)

MaxNodes == 3

----------------------------------------------------------------------------
(* The syntax tree, as the ast module presents it *)

None == "None"

Alias(name, asname) == [name |-> name, asname |-> asname]

Stmt(kind) == [kind |-> kind, id |-> None, names |-> <<>>]

Name(id) == [kind |-> "Name", id |-> id, names |-> <<>>]

Import(names) == [kind |-> "Import", id |-> None, names |-> names]

ImportFrom(names) == [kind |-> "ImportFrom", id |-> None, names |-> names]

\* import a / import b / import a, b / import a as b / from m import a
ImportStmts ==
  { Import(<<Alias("a", None)>>),
    Import(<<Alias("b", None)>>),
    Import(<<Alias("a", None), Alias("b", None)>>),
    Import(<<Alias("a", "b")>>),
    ImportFrom(<<Alias("a", None)>>) }

Identifiers == {"a", "b"}

\* Nodes that have statement or expression children of their own.
BlockKinds == {"For", "While", "FunctionDef"}

NodeValues ==
  {Stmt(k) : k \in BlockKinds} \cup {Name(x) : x \in Identifiers} \cup ImportStmts

RECURSIVE AncestorsOrSelf(_, _)
AncestorsOrSelf(parent, i) ==
  IF i = 0 THEN {0} ELSE {i} \cup AncestorsOrSelf(parent, parent[i])

\* Parent maps of the trees with n nodes whose node numbers are in source
\* order: a node follows its parent, and opens either below the node before
\* it or below one of that node's ancestors.
Parents(n) ==
  { p \in [1..n -> 0..(n - 1)] :
      \A i \in 1..n :
        /\ p[i] < i
        /\ i > 1 => p[i] \in AncestorsOrSelf(p, i - 1) }

\* Only block statements (and the module) have children.
TreesOfSize(n) ==
  { t \in [n : {n}, parent : Parents(n), node : [1..n -> NodeValues]] :
      \A i \in 1..n :
        t.parent[i] # 0 => t.node[t.parent[i]].kind \in BlockKinds }

Trees == UNION {TreesOfSize(n) : n \in 0..MaxNodes}

EmptyTree == [n |-> 0, parent |-> <<>>, node |-> <<>>]

\* A source text either parses to a tree or is malformed.
Texts == {[ok |-> TRUE, tree |-> t] : t \in Trees}
           \cup {[ok |-> FALSE, tree |-> EmptyTree]}

RECURSIVE SeqOfSet(_)
\* The elements of a set of node numbers in increasing (source) order.
SeqOfSet(S) ==
  IF S = {} THEN <<>>
  ELSE LET m == CHOOSE x \in S : \A y \in S : x <= y
       IN <<m>> \o SeqOfSet(S \ {m})

\* ast.iter_child_nodes: the direct children, in field order.
IterChildNodes(t, i) == SeqOfSet({j \in 1..t.n : t.parent[j] = i})

RECURSIVE WalkStack(_, _)
\* A depth-first pre-order visit: a node's children go to the front.
WalkStack(t, todo) ==
  IF todo = <<>> THEN <<>>
  ELSE <<Head(todo)>>
         \o WalkStack(t, IterChildNodes(t, Head(todo)) \o Tail(todo))

WalkDepthFirst(t, i) == WalkStack(t, <<i>>)

RECURSIVE WalkQueue(_, _)
\* ast.walk's loop: pop the left end of the deque, append the node's
\* children to the right end, yield the node.
WalkQueue(t, todo) ==
  IF todo = <<>> THEN <<>>
  ELSE <<Head(todo)>>
         \o WalkQueue(t, Tail(todo) \o IterChildNodes(t, Head(todo)))

\* ast.walk(node): node itself first, then its descendants.
Walk(t, i) == WalkQueue(t, <<i>>)

Range(s) == {s[k] : k \in 1..Len(s)}

Kind(t, i) == IF i = 0 THEN "Module" ELSE t.node[i].kind

Lineno(t, i) == i

\* tree.body: the top-level statements.
Body(t) == IterChildNodes(t, 0)

----------------------------------------------------------------------------
(* analyze_python_script *)

Digits == <<"0", "1", "2", "3", "4", "5", "6", "7", "8", "9">>

RECURSIVE IntToStr(_)
\* The decimal digits an f-string writes for a line number.
IntToStr(k) ==
  IF k < 10 THEN <<Digits[k + 1]>>
  ELSE IntToStr(k \div 10) \o <<Digits[(k % 10) + 1]>>

NestedLoopText == "Inefficient nested loop found at line "

UnusedImportText == "Unused import: "

\* f"Inefficient nested loop found at line {node.lineno}"
NestedLoopMessage(line) == <<NestedLoopText>> \o IntToStr(line)

\* f"Unused import: {unused}"
UnusedImportMessage(name) == <<UnusedImportText, name>>

\* isinstance(node, ast.For)
IsFor(t, i) == Kind(t, i) = "For"

\* any(isinstance(child, ast.For) for child in ast.walk(node))
AnyForInWalk(t, i) == \E c \in Range(Walk(t, i)) : IsFor(t, c)

\* The nodes the first loop reports, in the order it meets them.
ReportedLoops(t) ==
  SelectSeq(Walk(t, 0), LAMBDA i : IsFor(t, i) /\ AnyForInWalk(t, i))

NestedLoopIssues(t) ==
  [k \in 1..Len(ReportedLoops(t)) |->
     NestedLoopMessage(Lineno(t, ReportedLoops(t)[k]))]

\* {node.names[0].name for node in tree.body if isinstance(node, ast.Import)}
ImportedModules(t) ==
  { t.node[i].names[1].name :
      i \in {j \in Range(Body(t)) : Kind(t, j) = "Import"} }

\* {node.id for node in ast.walk(tree) if isinstance(node, ast.Name)}
UsedModules(t) ==
  { t.node[i].id : i \in {j \in Range(Walk(t, 0)) : Kind(t, j) = "Name"} }

UnusedImportsReversed(imported, used) == used \ imported

\* imported_modules - used_modules
UnusedImports(imported, used) == imported \ used

\* The string-hash seeds of a Python process: each fixes the order in which
\* a set of strings is iterated.
HashSeeds == {<<"a", "b">>, <<"b", "a">>}

\* for unused in unused_imports: the iteration order of a set of strings.
SetIter(S, seed) == SelectSeq(seed, LAMBDA x : x \in S)

UnusedImportIssues(t, seed) ==
  LET order == SetIter(UnusedImports(ImportedModules(t), UsedModules(t)), seed)
  IN [k \in 1..Len(order) |-> UnusedImportMessage(order[k])]

FindingsImportsFirst(t, seed) ==
  UnusedImportIssues(t, seed) \o NestedLoopIssues(t)

\* The list built between issues = [] and return issues.
Findings(t, seed) == NestedLoopIssues(t) \o UnusedImportIssues(t, seed)

Returned(list) == [raised |-> FALSE, issues |-> list]

Raised == [raised |-> TRUE, issues |-> <<>>]

AnalyzeSwallowingError(txt, seed) ==
  IF txt.ok THEN Returned(Findings(txt.tree, seed)) ELSE Returned(<<>>)

\* analyze_python_script: ast.parse raises SyntaxError on a malformed text,
\* before issues exists; otherwise the findings are returned.
AnalyzePythonScript(txt, seed) ==
  IF txt.ok THEN Returned(Findings(txt.tree, seed)) ELSE Raised

----------------------------------------------------------------------------
(* The module-level caller *)

Header == <<"Code Review Issues Found:">>

Success == <<"No issues found!">>

\* print(f"- {issue}")
IssueLine(issue) == <<"- ">> \o issue

SummaryAlwaysSuccess(list) ==
  <<Header>> \o [k \in 1..Len(list) |-> IssueLine(list[k])] \o <<Success>>

\* if issues: header and one line per issue; else: the success message.
Summary(list) ==
  IF list # <<>>
  THEN <<Header>> \o [k \in 1..Len(list) |-> IssueLine(list[k])]
  ELSE <<Success>>

----------------------------------------------------------------------------
(* State machine *)

Init ==
  /\ text \in Texts
  /\ hashseed \in HashSeeds
  /\ pc = "call"
  /\ issues = <<>>
  /\ out = <<>>
  /\ prev = <<>>

\* issues = analyze_python_script(file_to_check)
CallAnalyze ==
  /\ pc = "call"
  /\ LET r == AnalyzePythonScript(text, hashseed)
     IN IF r.raised
        THEN /\ pc' = "raised"
             /\ UNCHANGED issues
        ELSE /\ pc' = "returned"
             /\ issues' = r.issues
  /\ UNCHANGED <<text, hashseed, out, prev>>

\* if issues: ... else: ...
PrintSummary ==
  /\ pc = "returned"
  /\ out' = Summary(issues)
  /\ pc' = "done"
  /\ UNCHANGED <<text, hashseed, issues, prev>>

\* What the run that just ended produced.
Outcome == IF pc = "raised" THEN Raised ELSE Returned(issues)

\* The cell is run again in the same Python process, on the same file.
RerunCell ==
  /\ pc \in {"done", "raised"}
  /\ prev' = <<Outcome>>
  /\ pc' = "call"
  /\ out' = <<>>
  /\ UNCHANGED <<text, hashseed, issues>>

\* The cell is run in a fresh Python process, on the same file.
RestartProcess ==
  /\ pc \in {"done", "raised"}
  /\ prev' = <<Outcome>>
  /\ hashseed' \in HashSeeds
  /\ pc' = "call"
  /\ issues' = <<>>
  /\ out' = <<>>
  /\ UNCHANGED text

Next == CallAnalyze \/ PrintSummary \/ RerunCell \/ RestartProcess

Spec == Init /\ [][Next]_vars

----------------------------------------------------------------------------
(* Vocabulary of the properties *)

Tree == text.tree

Nodes == 1..Tree.n

\* analyze_python_script has returned its list to the caller.
Finished == pc \in {"returned", "done"}

Emitted == Range(issues)

IsNestedLoopFinding(f) == f[1] = NestedLoopText

IsUnusedImportFinding(f) == f[1] = UnusedImportText

\* A loop construct of any kind.
IsLoop(i) == Kind(Tree, i) \in {"For", "While"}

IsImportStmt(i) == Kind(Tree, i) \in {"Import", "ImportFrom"}

Descendants(i) ==
  {j \in Nodes : j # i /\ i \in AncestorsOrSelf(Tree.parent, j)}

ContainsLoop(i) == \E j \in Descendants(i) : IsLoop(j)

Depth(i) == Cardinality(AncestorsOrSelf(Tree.parent, i)) - 1

\* The name an import clause binds in the importing scope.
BoundName(al) == IF al.asname # None THEN al.asname ELSE al.name

Clauses(i) == Range(Tree.node[i].names)

TopLevelImports == {j \in Nodes : Tree.parent[j] = 0 /\ IsImportStmt(j)}

TopLevelBound ==
  UNION { {BoundName(al) : al \in Clauses(i)} : i \in TopLevelImports }

\* The names top-level imports bind without an alias.
TopLevelBoundPlain ==
  UNION { {al.name : al \in {c \in Clauses(i) : c.asname = None}} :
            i \in TopLevelImports }

Referenced == {Tree.node[i].id : i \in {j \in Nodes : Kind(Tree, j) = "Name"}}

Count(f) == Cardinality({k \in 1..Len(issues) : issues[k] = f})

\* Position of node i in a visiting order.
Pos(order, i) == CHOOSE k \in 1..Len(order) : order[k] = i

PreorderBefore(i, j) ==
  Pos(WalkDepthFirst(Tree, 0), i) < Pos(WalkDepthFirst(Tree, 0), j)

\* Level order: shallower nodes first, source order within a level.
LevelOrderBefore(i, j) ==
  \/ Depth(i) < Depth(j)
  \/ Depth(i) = Depth(j) /\ i < j

\* The loops two findings at positions p < q report.
ReportedAt(p, i) == issues[p] = NestedLoopMessage(Lineno(Tree, i))

----------------------------------------------------------------------------
(* Properties *)

\* C1: a loop whose subtree, the loop itself excluded, contains no other
\* loop gets no nested-loop finding (a flat loop gives no finding; in a nest
\* the innermost loop is not reported).
C1_NoFindingForInnermostLoop ==
  Finished =>
    \A i \in Nodes :
      IsLoop(i) /\ ~ContainsLoop(i)
        => NestedLoopMessage(Lineno(Tree, i)) \notin Emitted

\* C2: every loop, of whatever kind and depth, whose subtree contains another
\* loop gets a nested-loop finding carrying its own line number.
C2_FindingForEveryOuterLoop ==
  Finished =>
    \A i \in Nodes :
      IsLoop(i) /\ ContainsLoop(i)
        => NestedLoopMessage(Lineno(Tree, i)) \in Emitted

\* C3: every name bound by a top-level import statement and referenced
\* nowhere gets exactly one "Unused import" finding, wherever the name stands
\* in its statement and however often it is imported.  The names bound
\* through an alias are left to C4, so that a violation here never rests on
\* which of the two names an aliased import is reported under.
C3_OneFindingPerUnusedName ==
  Finished =>
    \A x \in TopLevelBoundPlain \ Referenced :
      Count(UnusedImportMessage(x)) = 1

\* C4: an import whose locally bound name is referenced somewhere in the
\* tree gets no "Unused import" finding (a finding that another, really
\* unused top-level import of the same name accounts for is not counted).
C4_NoFindingForReferencedImport ==
  Finished =>
    \A i \in {j \in Nodes : IsImportStmt(j)} :
      \A al \in Clauses(i) :
        BoundName(al) \in Referenced /\ al.name \notin TopLevelBound \ Referenced
          => /\ UnusedImportMessage(al.name) \notin Emitted
             /\ UnusedImportMessage(BoundName(al)) \notin Emitted

\* C5: a run on the same text ends as the run before it did: the same
\* findings in the same order, or the same error.
C5_SameOutcomeOnEveryRun ==
  (prev # <<>> /\ pc # "call") => Outcome = prev[1]

\* C6: in the returned list no "Unused import" finding comes before a
\* nested-loop finding.
C6_NestedLoopsBeforeUnusedImports ==
  Finished =>
    \A p, q \in 1..Len(issues) :
      IsUnusedImportFinding(issues[p]) /\ IsNestedLoopFinding(issues[q])
        => q < p

C6_Witness ==
  /\ Finished
  /\ \E f \in Emitted : IsNestedLoopFinding(f)
  /\ \E f \in Emitted : IsUnusedImportFinding(f)

\* C7: on a text that does not parse the call ends in SyntaxError: nothing
\* is returned, no finding exists and no summary line is printed.
C7_SyntaxErrorBeforeDetection ==
  ~text.ok => pc \in {"call", "raised"} /\ issues = <<>> /\ out = <<>>

C7_Witness == ~text.ok /\ pc = "raised"

\* C8: the summary is the success message alone for an empty list, and
\* otherwise the header followed by one line per finding, in list order,
\* without the success message.
C8_SummaryTwoBranches ==
  pc = "done" =>
    IF issues = <<>>
    THEN out = <<Success>>
    ELSE /\ Len(out) = Len(issues) + 1
         /\ out[1] = Header
         /\ \A k \in 1..Len(issues) : out[k + 1] = <<"- ">> \o issues[k]
         /\ Success \notin Range(out)

C8_Witness == pc = "done" /\ Len(issues) >= 2 /\ issues[1] # issues[2]

\* C9: a tree without loop nodes gets no nested-loop finding and a tree
\* without import statements gets no "Unused import" finding.
C9_EmptyCategoryStaysEmpty ==
  Finished =>
    /\ (\A i \in Nodes : ~IsLoop(i))
         => \A f \in Emitted : ~IsNestedLoopFinding(f)
    /\ (\A i \in Nodes : ~IsImportStmt(i))
         => \A f \in Emitted : ~IsUnusedImportFinding(f)

C9_Witness ==
  /\ Finished
  /\ \A i \in Nodes : ~IsImportStmt(i)
  /\ \E i \in Nodes : Kind(Tree, i) = "Name"
  /\ \E f \in Emitted : IsNestedLoopFinding(f)

\* C10 as stated: the nested-loop findings come in depth-first pre-order of
\* the loops they report.
C10_FindingsInPreorder ==
  Finished =>
    \A i, j \in Nodes : \A p, q \in 1..Len(issues) :
      i # j /\ ReportedAt(p, i) /\ ReportedAt(q, j)
        => (p < q <=> PreorderBefore(i, j))

\* C10 as amended: the nested-loop findings come in the breadth-first order
\* of ast.walk: a shallower loop first, source order within one depth.
C10_FindingsInLevelOrder ==
  Finished =>
    \A i, j \in Nodes : \A p, q \in 1..Len(issues) :
      i # j /\ ReportedAt(p, i) /\ ReportedAt(q, j)
        => (p < q <=> LevelOrderBefore(i, j))

C10_Witness ==
  /\ Finished
  /\ \E i, j \in Nodes : \E p, q \in 1..Len(issues) :
       /\ ReportedAt(p, i) /\ ReportedAt(q, j)
       /\ p < q /\ j < i /\ Depth(i) < Depth(j)

====
